---- MODULE Spec2Model ----
(***************************************************************************)
(* The Animal -> Mammal -> Rabbit hierarchy of this repository, in its two *)
(* encodings, driven side by side by the same calling code:                *)
(*   q3  the ES6 class version    (#private fields, static count)          *)
(*   q4  the prototype version    (closure variables, Animal.count)        *)
(* Variables ending in 3 belong to the class version, those ending in 4 to *)
(* the prototype version.  A construction is stepped through its           *)
(* initializer chain (pc); every other call is one step.                   *)
(***************************************************************************)
EXTENDS Integers, Sequences, FiniteSets, TLC

(* ------------------------------------------------------------------ *)
(* JavaScript values.  One record shape for every value, so that the   *)
(* language's === / !== is plain equality of records.                  *)
(* ------------------------------------------------------------------ *)
Undefined == [type |-> "undefined", str |-> "", bool |-> FALSE, num |-> 0]
Str(s) == [type |-> "string", str |-> s, bool |-> FALSE, num |-> 0]
Bool(b) == [type |-> "boolean", str |-> "", bool |-> b, num |-> 0]
Num(n) == [type |-> "number", str |-> "", bool |-> FALSE, num |-> n]
\* a private slot / closure variable the object does not (yet) have
NoSlot == [type |-> "noslot", str |-> "", bool |-> FALSE, num |-> 0]
\* the outcome "TypeError thrown" of a call
TypeError == [type |-> "TypeError", str |-> "", bool |-> FALSE, num |-> 0]

\* ToBoolean of the language: what `v || d` and `if (v)` test
Truthy(v) ==
    CASE v.type = "boolean" -> v.bool
      [] v.type = "number" -> v.num # 0
      [] v.type = "string" -> v.str # ""
      [] OTHER -> FALSE

(* ------------------------------------------------------------------ *)
(* Bounds and inputs of the calling code                               *)
(* ------------------------------------------------------------------ *)
MaxEntities == 2

Classes == {"Animal", "Mammal", "Rabbit"}
NameArgs == {Str(""), Str("Bunny")}
WalkValues == {Bool(TRUE), Bool(FALSE)}
WalkArgs == WalkValues \cup {Undefined}
JumpArgs == {Num(0 - 1), Num(0), Num(3), Undefined}

VARIABLES
    heap3,   \* q3: the constructed objects, in construction order
    heap4,   \* q4: the constructed objects, in construction order
    count3,  \* q3: the static field Animal.count
    count4,  \* q4: the property Animal.count
    pc,      \* where the running construction stands, "idle" between calls
    cur,     \* the running construction: its arguments, both `this` objects, its log
    last,    \* the call that returned last and its result; none while a construction runs
    script,  \* the runs of the two example scripts: position and console output of each
    fn       \* an application of one of the array functions: input and results

vars == <<heap3, heap4, count3, count4, pc, cur, last>>
allvars == <<vars, script, fn>>

\* no script runs, no array function is applied
NoScript == [name |-> "none"]
NoFn == [name |-> "none"]

NoCall == [op |-> "none"]
NoCur == [kind |-> "none"]

(* ------------------------------------------------------------------ *)
(* Parameter defaults                                                  *)
(* ------------------------------------------------------------------ *)
DefaultWalks == Bool(TRUE)
DefaultJumps == 2

\* a default that is never applied: the argument is stored as passed
ParamDefault3_NotApplied(arg, d) == arg

\* q3: a default parameter initializer `p = d` applies exactly when the
\* argument is undefined
ParamDefault3(arg, d) == IF arg = Undefined THEN d ELSE arg

\* the default written as `arg || d`: every falsy argument is replaced
ParamDefault4_Falsy(arg, d) == IF Truthy(arg) THEN arg ELSE d

\* q4: `arg !== undefined ? arg : d`
ParamDefault4(arg, d) == IF arg # Undefined THEN arg ELSE d

\* the state of the world at construction start
Init ==
    /\ heap3 = <<>>
    /\ heap4 = <<>>
    /\ count3 = 0
    /\ count4 = 0
    /\ pc = "idle"
    /\ cur = NoCur
    /\ last = NoCall
    /\ script = NoScript
    /\ fn = NoFn

(* ------------------------------------------------------------------ *)
(* Objects.  An object is its class and its private state: the #name,  *)
(* #walks, #jumps fields of q3, the _name, _walks, _jumps closure      *)
(* variables of q4.  A field the object's initializers have not        *)
(* installed is NoSlot.                                                *)
(* ------------------------------------------------------------------ *)
Unallocated == [cls |-> "unallocated", name |-> NoSlot, walks |-> NoSlot, jumps |-> NoSlot]

\* q4: `new K(...)` allocates `this` with K.prototype before K's body runs
Fresh4(kind) == [cls |-> kind, name |-> NoSlot, walks |-> NoSlot, jumps |-> NoSlot]

\* q3: the base constructor allocates `this` from new.target
Fresh3(kind) == [cls |-> kind, name |-> NoSlot, walks |-> NoSlot, jumps |-> NoSlot]

IsMammal(o) == o.cls \in {"Mammal", "Rabbit"}
IsRabbit(o) == o.cls = "Rabbit"

Ids == 1..Len(heap3)

(* ------------------------------------------------------------------ *)
(* Construction: new Animal(name), new Mammal(name, walks),            *)
(* new Rabbit(name, walks, jumps).  An omitted argument is undefined.  *)
(* ------------------------------------------------------------------ *)
Frame(kind, n, w, j, entered) ==
    [kind |-> kind, name |-> n, walks |-> w, jumps |-> j,
     walks3 |-> NoSlot, jumps3 |-> NoSlot,
     this3 |-> Unallocated, this4 |-> Fresh4(kind), log |-> <<entered>>]

\* new Animal(n): control enters Animal's initializer
NewAnimal(n) ==
    /\ pc = "idle"
    /\ UNCHANGED <<script, fn>>
    /\ Len(heap3) < MaxEntities
    /\ cur' = Frame("Animal", n, Undefined, Undefined, "Animal")
    /\ pc' = "Animal:name"
    /\ last' = NoCall
    /\ UNCHANGED <<heap3, heap4, count3, count4>>

\* new Mammal(n, w): control enters Mammal's initializer; q3 binds the
\* parameter `walks = true` on entry
NewMammal(n, w) ==
    /\ pc = "idle"
    /\ UNCHANGED <<script, fn>>
    /\ Len(heap3) < MaxEntities
    /\ cur' = [Frame("Mammal", n, w, Undefined, "Mammal")
                 EXCEPT !.walks3 = ParamDefault3(w, DefaultWalks)]
    /\ pc' = "Mammal:super"
    /\ last' = NoCall
    /\ UNCHANGED <<heap3, heap4, count3, count4>>

\* a Rabbit initializer that refuses a negative jump count
NewRabbit_RejectsNegative(n, w, j) ==
    /\ pc = "idle"
    /\ UNCHANGED <<script, fn>>
    /\ j.num >= 0
    /\ Len(heap3) < MaxEntities
    /\ cur' = [Frame("Rabbit", n, w, j, "Rabbit")
                 EXCEPT !.jumps3 = ParamDefault3(j, Num(DefaultJumps))]
    /\ pc' = "Rabbit:super"
    /\ last' = NoCall
    /\ UNCHANGED <<heap3, heap4, count3, count4>>

\* new Rabbit(n, w, j): control enters Rabbit's initializer; q3 binds the
\* parameter `jumps = 2` on entry
NewRabbit(n, w, j) ==
    /\ pc = "idle"
    /\ UNCHANGED <<script, fn>>
    /\ Len(heap3) < MaxEntities
    /\ cur' = [Frame("Rabbit", n, w, j, "Rabbit")
                 EXCEPT !.jumps3 = ParamDefault3(j, Num(DefaultJumps))]
    /\ pc' = "Rabbit:super"
    /\ last' = NoCall
    /\ UNCHANGED <<heap3, heap4, count3, count4>>

\* Rabbit: super(name, walks) / Mammal.call(this, name, walks)
RabbitSuper ==
    /\ pc = "Rabbit:super"
    /\ UNCHANGED <<script, fn>>
    /\ cur' = [cur EXCEPT !.walks3 = ParamDefault3(cur.walks, DefaultWalks),
                          !.log = Append(@, "Mammal")]
    /\ pc' = "Mammal:super"
    /\ UNCHANGED <<heap3, heap4, count3, count4, last>>

\* Mammal storing its attribute before it calls its parent's initializer
MammalSuper_StoresWalksFirst ==
    /\ pc = "Mammal:super"
    /\ UNCHANGED <<script, fn>>
    /\ cur' = [cur EXCEPT !.this4 = [@ EXCEPT !.walks = ParamDefault4(cur.walks, DefaultWalks)],
                          !.log = Append(Append(@, "walks"), "Animal")]
    /\ pc' = "Animal:name"
    /\ UNCHANGED <<heap3, heap4, count3, count4, last>>

\* Mammal: super(name) / Animal.call(this, name)
MammalSuper ==
    /\ pc = "Mammal:super"
    /\ UNCHANGED <<script, fn>>
    /\ cur' = [cur EXCEPT !.log = Append(@, "Animal")]
    /\ pc' = "Animal:name"
    /\ UNCHANGED <<heap3, heap4, count3, count4, last>>

\* Animal: this.#name = name / var _name = name (and the two closures over it)
AnimalStoreName ==
    /\ pc = "Animal:name"
    /\ UNCHANGED <<script, fn>>
    /\ cur' = [cur EXCEPT !.this3 = [Fresh3(cur.kind) EXCEPT !.name = cur.name],
                          !.this4 = [@ EXCEPT !.name = cur.name],
                          !.log = Append(@, "name")]
    /\ pc' = "Animal:count"
    /\ UNCHANGED <<heap3, heap4, count3, count4, last>>

\* `new` hands the finished object to the calling code
Return(o3, o4, log) ==
    /\ heap3' = Append(heap3, o3)
    /\ heap4' = Append(heap4, o4)
    /\ last' = [op |-> "new", id |-> Len(heap3) + 1, kind |-> cur.kind,
                name |-> cur.name, walks |-> cur.walks, jumps |-> cur.jumps,
                log |-> log]
    /\ cur' = NoCur
    /\ pc' = "idle"

\* Animal.count-- in place of Animal.count++
AnimalCount_Decrements ==
    /\ pc = "Animal:count"
    /\ UNCHANGED <<script, fn>>
    /\ count3' = count3 - 1
    /\ count4' = count4 - 1
    /\ IF cur.kind = "Animal"
         THEN Return(cur.this3, cur.this4, Append(cur.log, "count"))
         ELSE /\ cur' = [cur EXCEPT !.log = Append(@, "count")]
              /\ pc' = "Mammal:walks"
              /\ UNCHANGED <<heap3, heap4, last>>

\* Animal: Animal.count++, and the initializer returns
AnimalCount ==
    /\ pc = "Animal:count"
    /\ UNCHANGED <<script, fn>>
    /\ count3' = count3 + 1
    /\ count4' = count4 + 1
    /\ IF cur.kind = "Animal"
         THEN Return(cur.this3, cur.this4, Append(cur.log, "count"))
         ELSE /\ cur' = [cur EXCEPT !.log = Append(@, "count")]
              /\ pc' = "Mammal:walks"
              /\ UNCHANGED <<heap3, heap4, last>>

\* Mammal's initializer counting the entity a second time
MammalStoreWalks_AlsoCounts ==
    /\ pc = "Mammal:walks"
    /\ UNCHANGED <<script, fn>>
    /\ LET o3 == [cur.this3 EXCEPT !.walks = cur.walks3]
           o4 == [cur.this4 EXCEPT !.walks = ParamDefault4(cur.walks, DefaultWalks)]
           log == Append(cur.log, "walks")
       IN IF cur.kind = "Mammal"
            THEN Return(o3, o4, log)
            ELSE /\ cur' = [cur EXCEPT !.this3 = o3, !.this4 = o4, !.log = log]
                 /\ pc' = "Rabbit:jumps"
                 /\ UNCHANGED <<heap3, heap4, last>>
    /\ count3' = count3 + 1
    /\ count4' = count4 + 1

\* Mammal: this.#walks = walks / var _walks = walks !== undefined ? walks : true
MammalStoreWalks ==
    /\ pc = "Mammal:walks"
    /\ UNCHANGED <<script, fn>>
    /\ LET o3 == [cur.this3 EXCEPT !.walks = cur.walks3]
           o4 == [cur.this4 EXCEPT !.walks = ParamDefault4(cur.walks, DefaultWalks)]
           log == Append(cur.log, "walks")
       IN IF cur.kind = "Mammal"
            THEN Return(o3, o4, log)
            ELSE /\ cur' = [cur EXCEPT !.this3 = o3, !.this4 = o4, !.log = log]
                 /\ pc' = "Rabbit:jumps"
                 /\ UNCHANGED <<heap3, heap4, last>>
    /\ UNCHANGED <<count3, count4>>

\* a Rabbit initializer that returns without storing jumps
RabbitStoreJumps_NoStore ==
    /\ pc = "Rabbit:jumps"
    /\ UNCHANGED <<script, fn>>
    /\ Return(cur.this3, cur.this4, Append(cur.log, "jumps"))
    /\ UNCHANGED <<count3, count4>>

\* Rabbit: this.#jumps = jumps / var _jumps = jumps !== undefined ? jumps : 2
RabbitStoreJumps ==
    /\ pc = "Rabbit:jumps"
    /\ UNCHANGED <<script, fn>>
    /\ Return([cur.this3 EXCEPT !.jumps = cur.jumps3],
              [cur.this4 EXCEPT !.jumps = ParamDefault4(cur.jumps, Num(DefaultJumps))],
              Append(cur.log, "jumps"))
    /\ UNCHANGED <<count3, count4>>

(* ------------------------------------------------------------------ *)
(* The accessors.  q3 defines them on the prototypes of the classes,   *)
(* q4 as closures installed on the object by its initializers.         *)
(* ------------------------------------------------------------------ *)
\* q3: get name() { return this.#name }
getName3(o) == o.name
\* q4: this.getName = function () { return _name }
getName4(o) == o.name

\* a setter that keeps the old name when given a falsy one: if (value) ...
setName3_RejectsEmpty(o, value) == IF Truthy(value) THEN [o EXCEPT !.name = value] ELSE o

\* q3: set name(value) { this.#name = value }
setName3(o, value) == [o EXCEPT !.name = value]
\* q4: this.setName = function (value) { _name = value }
setName4(o, value) == [o EXCEPT !.name = value]

\* q3: walksOnLand() { return this.#walks }
walksOnLand3(o) == o.walks
\* q4: this.walksOnLand = function () { return _walks }
walksOnLand4(o) == o.walks

\* q3: set walks(value) { this.#walks = value }
setWalks3(o, value) == [o EXCEPT !.walks = value]
\* the setter written as `_walks = value || true`
setWalks4_Falsy(o, value) == [o EXCEPT !.walks = IF Truthy(value) THEN value ELSE Bool(TRUE)]

\* q4: this.setWalks = function (value) { _walks = value }
setWalks4(o, value) == [o EXCEPT !.walks = value]

\* q3: get jumpsCount() { return this.#jumps }
jumpsCount3(o) == o.jumps
\* q4: this.getJumps = function () { return _jumps }
getJumps4(o) == o.jumps

\* q3: static totalAnimal() { return this.count }, called on Animal
totalAnimal3 == Num(count3)
\* q4: Animal.totalAnimals = function () { return Animal.count }
totalAnimals4 == Num(count4)

Called(op, i, arg, r3, r4) == [op |-> op, id |-> i, arg |-> arg, r3 |-> r3, r4 |-> r4]

\* console.log(e.name) / e.getName()
GetName(i) ==
    /\ pc = "idle"
    /\ UNCHANGED <<script, fn>>
    /\ last' = Called("getName", i, Undefined, getName3(heap3[i]), getName4(heap4[i]))
    /\ UNCHANGED <<heap3, heap4, count3, count4, pc, cur>>

\* the name kept in one place shared by all entities (a static field, a
\* variable outside the initializer)
SetName_SharedStorage(i, value) ==
    /\ pc = "idle"
    /\ UNCHANGED <<script, fn>>
    /\ heap3' = [j \in 1..Len(heap3) |-> setName3(heap3[j], value)]
    /\ heap4' = [j \in 1..Len(heap4) |-> setName4(heap4[j], value)]
    /\ last' = Called("setName", i, value, Undefined, Undefined)
    /\ UNCHANGED <<count3, count4, pc, cur>>

\* e.name = value / e.setName(value)
SetName(i, value) ==
    /\ pc = "idle"
    /\ UNCHANGED <<script, fn>>
    /\ heap3' = [heap3 EXCEPT ![i] = setName3(@, value)]
    /\ heap4' = [heap4 EXCEPT ![i] = setName4(@, value)]
    /\ last' = Called("setName", i, value, Undefined, Undefined)
    /\ UNCHANGED <<count3, count4, pc, cur>>

\* m.walksOnLand()
WalksOnLand(i) ==
    /\ pc = "idle"
    /\ UNCHANGED <<script, fn>>
    /\ IsMammal(heap3[i])
    /\ last' = Called("walksOnLand", i, Undefined,
                      walksOnLand3(heap3[i]), walksOnLand4(heap4[i]))
    /\ UNCHANGED <<heap3, heap4, count3, count4, pc, cur>>

\* m.walks = value / m.setWalks(value)
SetWalks(i, value) ==
    /\ pc = "idle"
    /\ UNCHANGED <<script, fn>>
    /\ IsMammal(heap3[i])
    /\ heap3' = [heap3 EXCEPT ![i] = setWalks3(@, value)]
    /\ heap4' = [heap4 EXCEPT ![i] = setWalks4(@, value)]
    /\ last' = Called("setWalks", i, value, Undefined, Undefined)
    /\ UNCHANGED <<count3, count4, pc, cur>>

\* r.jumpsCount / r.getJumps()
JumpsCount(i) ==
    /\ pc = "idle"
    /\ UNCHANGED <<script, fn>>
    /\ IsRabbit(heap3[i])
    /\ last' = Called("jumpsCount", i, Undefined,
                      jumpsCount3(heap3[i]), getJumps4(heap4[i]))
    /\ UNCHANGED <<heap3, heap4, count3, count4, pc, cur>>

\* `return this.count++` in place of `return this.count`
TotalAnimal_PostIncrement ==
    /\ pc = "idle"
    /\ UNCHANGED <<script, fn>>
    /\ last' = Called("totalAnimal", 0, Undefined, totalAnimal3, totalAnimals4)
    /\ count3' = count3 + 1
    /\ count4' = count4 + 1
    /\ UNCHANGED <<heap3, heap4, pc, cur>>

\* Animal.totalAnimal() / Animal.totalAnimals()
TotalAnimal ==
    /\ pc = "idle"
    /\ UNCHANGED <<script, fn>>
    /\ last' = Called("totalAnimal", 0, Undefined, totalAnimal3, totalAnimals4)
    /\ UNCHANGED <<heap3, heap4, count3, count4, pc, cur>>

(* ------------------------------------------------------------------ *)
(* What else the language lets calling code write: a plain assignment  *)
(* to a property of an object, and to Animal.count.  (e.name = v and   *)
(* m.walks = v of q3 are the setters above.  Replacing a method or an  *)
(* accessor, on the object or on a prototype, is outside the model.)   *)
(* ------------------------------------------------------------------ *)
Ignored == [type |-> "ignored", str |-> "", bool |-> FALSE, num |-> 0]
Expando == [type |-> "expando", str |-> "", bool |-> FALSE, num |-> 0]

\* Rabbit given a `set jumpsCount(value)` as well
Setter3_WithJumpsSetter(cls, prop) ==
    CASE prop = "name" -> "name"
      [] prop = "walks" /\ cls \in {"Mammal", "Rabbit"} -> "walks"
      [] prop = "jumpsCount" /\ cls = "Rabbit" -> "jumps"
      [] OTHER -> "none"

\* q3: the private field that the setter for `prop` found on the prototype
\* chain of class cls writes, "none" if the chain has no such setter
Setter3(cls, prop) ==
    CASE prop = "name" -> "name"
      [] prop = "walks" /\ cls \in {"Mammal", "Rabbit"} -> "walks"
      [] OTHER -> "none"

\* q3: the private field that the getter for `prop` reads, "none" without one
Getter3(cls, prop) ==
    CASE prop = "name" -> "name"
      [] prop = "jumpsCount" /\ cls = "Rabbit" -> "jumps"
      [] OTHER -> "none"

\* q3: o[prop] = value.  A setter runs; an accessor without setter ignores
\* the value (sloppy caller) or throws (strict caller); any other name
\* becomes an ordinary property, which no #field is.
Assign3(o, prop, value, strict) ==
    IF Setter3(o.cls, prop) # "none"
      THEN [obj |-> [o EXCEPT ![Setter3(o.cls, prop)] = value], r |-> Undefined]
      ELSE IF Getter3(o.cls, prop) # "none"
             THEN [obj |-> o, r |-> IF strict THEN TypeError ELSE Ignored]
             ELSE [obj |-> o, r |-> Expando]

\* the name kept as the public property this._name
Assign4_PublicName(o, prop, value, strict) ==
    IF prop = "_name"
      THEN [obj |-> [o EXCEPT !.name = value], r |-> Undefined]
      ELSE [obj |-> o, r |-> Expando]

\* q4: o[prop] = value.  _name, _walks and _jumps are variables of the
\* initializers' scopes, not properties: the assignment makes a property.
Assign4(o, prop, value, strict) == [obj |-> o, r |-> Expando]

RawProps == {"jumpsCount", "_jumps", "_name"}
RawValues == {Num(7)}
RawCounts == {0}

\* e[prop] = value, from calling code
RawAssign(i, prop, value, strict) ==
    /\ pc = "idle"
    /\ UNCHANGED <<script, fn>>
    /\ LET a3 == Assign3(heap3[i], prop, value, strict)
           a4 == Assign4(heap4[i], prop, value, strict)
       IN /\ heap3' = [heap3 EXCEPT ![i] = a3.obj]
          /\ heap4' = [heap4 EXCEPT ![i] = a4.obj]
          /\ last' = Called("assign:" \o prop, i, value, a3.r, a4.r)
    /\ UNCHANGED <<count3, count4, pc, cur>>

\* Animal.count = v, from calling code: count is a public static field in q3
\* and a property of the function Animal in q4
RawSetCount(v) ==
    /\ pc = "idle"
    /\ UNCHANGED <<script, fn>>
    /\ count3' = v
    /\ count4' = v
    /\ last' = Called("assign:count", 0, Num(v), Undefined, Undefined)
    /\ UNCHANGED <<heap3, heap4, pc, cur>>

(* ------------------------------------------------------------------ *)
(* The calling code                                                    *)
(* ------------------------------------------------------------------ *)
New(names, walkArgs, jumpArgs) ==
    \/ \E n \in names : NewAnimal(n)
    \/ \E n \in names, w \in walkArgs : NewMammal(n, w)
    \/ \E n \in names, w \in walkArgs, j \in jumpArgs : NewRabbit(n, w, j)

Construct ==
    \/ RabbitSuper
    \/ MammalSuper
    \/ AnimalStoreName
    \/ AnimalCount
    \/ MammalStoreWalks
    \/ RabbitStoreJumps

Read ==
    \/ \E i \in Ids : GetName(i)
    \/ \E i \in Ids : WalksOnLand(i)
    \/ \E i \in Ids : JumpsCount(i)
    \/ TotalAnimal

Write(names) ==
    \/ \E i \in Ids, v \in names : SetName(i, v)
    \/ \E i \in Ids, v \in WalkValues : SetWalks(i, v)

Raw ==
    \/ \E i \in Ids, p \in RawProps, v \in RawValues, strict \in BOOLEAN :
          RawAssign(i, p, v, strict)
    \/ \E v \in RawCounts : RawSetCount(v)

\* calling code that uses the hierarchy through its constructors and accessors
Next ==
    \/ New(NameArgs, WalkArgs, JumpArgs)
    \/ Construct
    \/ Read
    \/ Write(NameArgs)

Spec == Init /\ [][Next]_allvars

\* calling code that also assigns to properties directly
RawNameArgs == {Str(""), Str("Bunny")}
RawWalkArgs == {Bool(FALSE), Undefined}
RawJumpArgs == {Num(0)}

NextRaw ==
    \/ New(RawNameArgs, RawWalkArgs, RawJumpArgs)
    \/ Construct
    \/ Read
    \/ Write(RawNameArgs)
    \/ Raw

SpecRaw == Init /\ [][NextRaw]_allvars

(* ------------------------------------------------------------------ *)
(* q2.js: filterAnagrams.  A string is the sequence of its UTF-16 code *)
(* units; an array is a sequence.                                      *)
(* ------------------------------------------------------------------ *)
MaxWordLen == 2
MaxWords == 3

RECURSIVE SeqsUpTo(_, _)
\* the sequences over S of length at most n
SeqsUpTo(S, n) ==
    IF n = 0 THEN {<<>>}
    ELSE LET shorter == SeqsUpTo(S, n - 1)
         IN shorter \cup {Append(q, x) : q \in {r \in shorter : Len(r) = n - 1}, x \in S}

\* "a", "b"
Chars == {97, 98}
Words == SeqsUpTo(Chars, MaxWordLen)
WordLists == SeqsUpTo(Words, MaxWords)

\* word.split(""): one string of one code unit per code unit
Split(word) == [k \in 1..Len(word) |-> <<word[k]>>]

RECURSIVE StrLess(_, _)
\* x < y as Array.prototype.sort compares strings: by code units, a proper
\* prefix first
StrLess(x, y) ==
    IF y = <<>> THEN FALSE
    ELSE IF x = <<>> THEN TRUE
    ELSE IF Head(x) # Head(y) THEN Head(x) < Head(y)
    ELSE StrLess(Tail(x), Tail(y))

RECURSIVE InsertSorted(_, _)
InsertSorted(x, sorted) ==
    IF sorted = <<>> THEN <<x>>
    ELSE IF StrLess(x, Head(sorted)) THEN <<x>> \o sorted
    ELSE <<Head(sorted)>> \o InsertSorted(x, Tail(sorted))

RECURSIVE SortStrings(_)
\* .sort() without comparator: the strings in ascending order
SortStrings(strs) ==
    IF strs = <<>> THEN <<>>
    ELSE InsertSorted(strs[Len(strs)], SortStrings(SubSeq(strs, 1, Len(strs) - 1)))

RECURSIVE Join(_)
\* .join(""): the strings concatenated
Join(strs) == IF strs = <<>> THEN <<>> ELSE Head(strs) \o Join(Tail(strs))

\* a key that is the word itself: the sort left out
AnagramKey_Unsorted(word) == Join(Split(word))

\* const key = word.split("").sort().join("")
AnagramKey(word) == Join(SortStrings(Split(word)))

\* map.has(key), for a Map kept as its entries in insertion order
MapHas(map, key) == \E k \in 1..Len(map) : map[k].key = key

\* map.set(key, []) done for every word, not only for a new key
MapPush_AlwaysSet(map, key, word) ==
    LET m == IF MapHas(map, key) THEN map ELSE Append(map, [key |-> key, group |-> <<>>])
    IN [k \in 1..Len(m) |->
          IF m[k].key = key THEN [m[k] EXCEPT !.group = <<word>>] ELSE m[k]]

\* if (!map.has(key)) map.set(key, []);  map.get(key).push(word)
MapPush(map, key, word) ==
    LET m == IF MapHas(map, key) THEN map ELSE Append(map, [key |-> key, group |-> <<>>])
    IN [k \in 1..Len(m) |->
          IF m[k].key = key THEN [m[k] EXCEPT !.group = Append(@, word)] ELSE m[k]]

RECURSIVE AnagramLoop(_, _, _)
\* for (const word of arr) { ... }, from the k-th word on
AnagramLoop(arr, k, map) ==
    IF k > Len(arr) THEN map
    ELSE AnagramLoop(arr, k + 1, MapPush(map, AnagramKey(arr[k]), arr[k]))

\* return [...map.values()]
filterAnagrams(arr) ==
    LET map == AnagramLoop(arr, 1, <<>>)
    IN [k \in 1..Len(map) |-> map[k].group]

\* the hierarchy and the scripts at rest
Rest ==
    /\ heap3 = <<>>
    /\ heap4 = <<>>
    /\ count3 = 0
    /\ count4 = 0
    /\ pc = "idle"
    /\ cur = NoCur
    /\ last = NoCall
    /\ script = NoScript

\* calling code about to call filterAnagrams(arr)
InitAnagrams ==
    /\ Rest
    /\ \E arr \in WordLists :
          fn = [name |-> "filterAnagrams", arr |-> arr, done |-> FALSE, result |-> <<>>]

\* console.log(filterAnagrams(words))
CallFilterAnagrams ==
    /\ fn.name = "filterAnagrams"
    /\ ~fn.done
    /\ fn' = [fn EXCEPT !.done = TRUE, !.result = filterAnagrams(fn.arr)]
    /\ UNCHANGED <<vars, script>>

SpecAnagrams == InitAnagrams /\ [][CallFilterAnagrams]_allvars

(* ------------------------------------------------------------------ *)
(* q1.js: the unique members of an array, two ways                     *)
(* ------------------------------------------------------------------ *)
MaxArr == 3

NaN == [type |-> "number", str |-> "NaN", bool |-> FALSE, num |-> 0]

\* x === y: NaN equals nothing, itself included
StrictEquals(x, y) == x = y /\ x # NaN /\ y # NaN

\* SameValueZero, the equality of Set: NaN equals NaN
SameValueZero(x, y) == x = y

\* const arr = [1,2,2,3,3,4,4,5,5]
Q1Literal == <<Num(1), Num(2), Num(2), Num(3), Num(3), Num(4), Num(4), Num(5), Num(5)>>

Elems == {Num(1), Num(2), NaN}
Arrays == SeqsUpTo(Elems, MaxArr) \cup {Q1Literal}

RECURSIVE SetOf(_, _, _)
\* new Set(arr): the elements added in order, one kept per SameValueZero
\* class; the Set as its elements in insertion order
SetOf(arr, k, set) ==
    IF k > Len(arr) THEN set
    ELSE SetOf(arr, k + 1,
               IF \E m \in 1..Len(set) : SameValueZero(set[m], arr[k])
                 THEN set ELSE Append(set, arr[k]))

\* const unique = [...new Set(arr)]
unique(arr) == SetOf(arr, 1, <<>>)

\* arr.indexOf(value): the zero-based index of the first element === value,
\* -1 if there is none
IndexOf(arr, value) ==
    IF \E k \in 1..Len(arr) : StrictEquals(arr[k], value)
      THEN (CHOOSE k \in 1..Len(arr) :
               /\ StrictEquals(arr[k], value)
               /\ \A m \in 1..(k - 1) : ~StrictEquals(arr[m], value)) - 1
      ELSE 0 - 1

RECURSIVE Filter(_, _, _)
\* arr.filter((value, index) => arr.indexOf(value) === index), from the
\* element of zero-based index k on
Filter(arr, k, kept) ==
    IF k >= Len(arr) THEN kept
    ELSE Filter(arr, k + 1,
                IF IndexOf(arr, arr[k + 1]) = k THEN Append(kept, arr[k + 1]) ELSE kept)

\* const uniqueArr = arr.filter(...)
uniqueArr(arr) == Filter(arr, 0, <<>>)

\* the script about to run on an array arr
InitUnique ==
    /\ Rest
    /\ \E arr \in Arrays :
          fn = [name |-> "q1", arr |-> arr, line |-> "unique",
                unique |-> <<>>, uniqueArr |-> <<>>]

\* line 9
Q1Unique ==
    /\ fn.name = "q1"
    /\ fn.line = "unique"
    /\ fn' = [fn EXCEPT !.unique = unique(fn.arr), !.line = "uniqueArr"]
    /\ UNCHANGED <<vars, script>>

\* lines 13-15
Q1UniqueArr ==
    /\ fn.name = "q1"
    /\ fn.line = "uniqueArr"
    /\ fn' = [fn EXCEPT !.uniqueArr = uniqueArr(fn.arr), !.line = "done"]
    /\ UNCHANGED <<vars, script>>

NextUnique == Q1Unique \/ Q1UniqueArr

SpecUnique == InitUnique /\ [][NextUnique]_allvars

(* ------------------------------------------------------------------ *)
(* q7.js: flattening a nested array, two ways.  An element is a number *)
(* (Leaf) or an array (Arr) of elements.                               *)
(* ------------------------------------------------------------------ *)
MaxWidth == 2

Leaf(v) == [isArray |-> FALSE, val |-> v, items |-> <<>>]
Arr(items) == [isArray |-> TRUE, val |-> 0, items |-> items]

\* const arr = [1, [2, [3, 4], 5], [6, 7], 8]
Q7Literal ==
    Arr(<<Leaf(1), Arr(<<Leaf(2), Arr(<<Leaf(3), Leaf(4)>>), Leaf(5)>>),
          Arr(<<Leaf(6), Leaf(7)>>), Leaf(8)>>)

LeafNodes == {Leaf(1), Leaf(2)}
\* arrays of numbers, arrays of numbers and such arrays
Level1 == {Arr(q) : q \in SeqsUpTo(LeafNodes, MaxWidth)}
Level2 == {Arr(q) : q \in SeqsUpTo(LeafNodes \cup Level1, MaxWidth)}
\* one more level of nesting around each array of S
Wrap(S) == {Arr(<<a>>) : a \in S} \cup {Arr(<<Leaf(1), a, Leaf(2)>>) : a \in S}
NestedArrays ==
    Level2 \cup Wrap(Level2) \cup Wrap(Wrap(Wrap(Level1))) \cup {Q7Literal}

RECURSIVE FlattenIntoArray(_, _, _)
\* Array.prototype.flat(depth) on the elements `items`: an element that is an
\* array is replaced by its flattened elements while depth > 0; infinite
\* says that depth is Infinity, which stays Infinity one level down
FlattenIntoArray(items, infinite, depth) ==
    IF items = <<>> THEN <<>>
    ELSE LET el == Head(items)
         IN (IF el.isArray /\ (infinite \/ depth > 0)
               THEN FlattenIntoArray(el.items, infinite, depth - 1)
               ELSE <<el>>)
            \o FlattenIntoArray(Tail(items), infinite, depth)

\* array.flat(), whose depth is 1
flattenUsingFlat_DepthOne(array) == FlattenIntoArray(array.items, FALSE, 1)

\* return array.flat(Infinity)
flattenUsingFlat(array) == FlattenIntoArray(array.items, TRUE, 0)

\* a body that pushes every item, arrays too, and never recurses
flattenWithoutFlat_PushOnly(array) == array.items

RECURSIVE flattenWithoutFlat(_)
RECURSIVE ForEachItem(_, _, _)
\* array.forEach(item => ...), from the k-th item on, result so far given
ForEachItem(items, k, result) ==
    IF k > Len(items) THEN result
    ELSE ForEachItem(items, k + 1,
                     IF items[k].isArray
                       THEN result \o flattenWithoutFlat(items[k])
                       ELSE Append(result, items[k]))

\* let result = []; array.forEach(...); return result
flattenWithoutFlat(array) == ForEachItem(array.items, 1, <<>>)

\* calling code about to flatten an array
InitFlatten ==
    /\ Rest
    /\ \E a \in NestedArrays :
          fn = [name |-> "q7", array |-> a, line |-> "flat",
                flat |-> <<>>, withoutFlat |-> <<>>]

\* console.log(flattenUsingFlat(arr))
Q7UsingFlat ==
    /\ fn.name = "q7"
    /\ fn.line = "flat"
    /\ fn' = [fn EXCEPT !.flat = flattenUsingFlat(fn.array), !.line = "withoutFlat"]
    /\ UNCHANGED <<vars, script>>

\* console.log(flattenWithoutFlat(arr))
Q7WithoutFlat ==
    /\ fn.name = "q7"
    /\ fn.line = "withoutFlat"
    /\ fn' = [fn EXCEPT !.withoutFlat = flattenWithoutFlat(fn.array), !.line = "done"]
    /\ UNCHANGED <<vars, script>>

NextFlatten == Q7UsingFlat \/ Q7WithoutFlat

SpecFlatten == InitFlatten /\ [][NextFlatten]_allvars

(* ------------------------------------------------------------------ *)
(* q7.js, flattenWithoutFlat step by step.  Arrays are objects in a    *)
(* store: an address is an index into the store, an array is the       *)
(* sequence of its cells, a cell is a number or the address of an      *)
(* array.  A frame of the call stack is one activation: the array it   *)
(* was called on, its `result`, and the index forEach has reached.     *)
(* ------------------------------------------------------------------ *)
Val(v) == [isRef |-> FALSE, val |-> v]
Ref(a) == [isRef |-> TRUE, val |-> a]

RECURSIVE Allocate(_, _)
RECURSIVE AllocateItems(_, _, _, _)
\* the array literal `node` built in the store: nested arrays first, then
\* the array itself, whose address is the last one
Allocate(node, store) ==
    LET r == AllocateItems(node.items, 1, store, <<>>)
    IN [store |-> Append(r.store, r.cells), addr |-> Len(r.store) + 1]

AllocateItems(items, k, store, cells) ==
    IF k > Len(items) THEN [store |-> store, cells |-> cells]
    ELSE IF items[k].isArray
           THEN LET a == Allocate(items[k], store)
                IN AllocateItems(items, k + 1, a.store, Append(cells, Ref(a.addr)))
           ELSE AllocateItems(items, k + 1, store, Append(cells, Val(items[k].val)))

RECURSIVE Contents(_, _)
\* the nested array found at an address of the store
Contents(store, addr) ==
    Arr([k \in 1..Len(store[addr]) |->
            IF store[addr][k].isRef THEN Contents(store, store[addr][k].val)
                                    ELSE Leaf(store[addr][k].val)])

\* let result = []
NewFrame(store, array) == [array |-> array, result |-> Len(store) + 1, k |-> 1]

Top(stack) == stack[Len(stack)]
Pop(stack) == SubSeq(stack, 1, Len(stack) - 1)

\* calling code holding a nested array
InitSteps ==
    /\ Rest
    /\ \E a \in NestedArrays :
          LET m == Allocate(a, <<>>)
          IN fn = [name |-> "flattenWithoutFlat", array |-> a, store |-> m.store,
                   root |-> m.addr, stack |-> <<>>, calls |-> <<>>,
                   returned |-> 0, line |-> "call"]

Running == fn.name = "flattenWithoutFlat" /\ fn.line = "run"

\* flattenWithoutFlat(arr), called by the calling code
CallFlatten ==
    /\ fn.name = "flattenWithoutFlat"
    /\ fn.line = "call"
    /\ fn' = [fn EXCEPT !.stack = <<NewFrame(fn.store, fn.root)>>,
                        !.store = Append(@, <<>>),
                        !.line = "run"]
    /\ UNCHANGED <<vars, script>>

\* forEach: the item is an array; flattenWithoutFlat(item) is called
ItemIsArray ==
    /\ Running
    /\ LET f == Top(fn.stack)
       IN /\ f.k <= Len(fn.store[f.array])
          /\ fn.store[f.array][f.k].isRef
          /\ fn' = [fn EXCEPT
                      !.stack = Append(@, NewFrame(fn.store, fn.store[f.array][f.k].val)),
                      !.store = Append(@, <<>>),
                      !.calls = Append(@, fn.store[f.array][f.k].val)]
    /\ UNCHANGED <<vars, script>>

\* forEach: the item is not an array; result.push(item)
ItemPush ==
    /\ Running
    /\ LET f == Top(fn.stack)
       IN /\ f.k <= Len(fn.store[f.array])
          /\ ~fn.store[f.array][f.k].isRef
          /\ fn' = [fn EXCEPT
                      !.store[f.result] = Append(@, fn.store[f.array][f.k]),
                      !.stack[Len(fn.stack)].k = f.k + 1]
    /\ UNCHANGED <<vars, script>>

\* result.concat(flattenWithoutFlat(item)) with its value thrown away
ReturnConcat_Discarded ==
    /\ Running
    /\ Len(fn.stack) > 1
    /\ Top(fn.stack).k > Len(fn.store[Top(fn.stack).array])
    /\ fn' = [fn EXCEPT !.stack = [Pop(fn.stack) EXCEPT ![Len(fn.stack) - 1].k = @ + 1]]
    /\ UNCHANGED <<vars, script>>

\* forEach is over in a recursive call: return result, and the caller's
\* result = result.concat(<returned>), a new array
ReturnConcat ==
    /\ Running
    /\ Len(fn.stack) > 1
    /\ LET f == Top(fn.stack)
           caller == fn.stack[Len(fn.stack) - 1]
       IN /\ f.k > Len(fn.store[f.array])
          /\ fn' = [fn EXCEPT
                      !.store = Append(@, fn.store[caller.result] \o fn.store[f.result]),
                      !.stack = [Pop(fn.stack) EXCEPT
                                   ![Len(fn.stack) - 1].result = Len(fn.store) + 1,
                                   ![Len(fn.stack) - 1].k = @ + 1]]
    /\ UNCHANGED <<vars, script>>

\* forEach is over in the outermost call: return result to the calling code
ReturnResult ==
    /\ Running
    /\ Len(fn.stack) = 1
    /\ LET f == Top(fn.stack)
       IN /\ f.k > Len(fn.store[f.array])
          /\ fn' = [fn EXCEPT !.stack = <<>>, !.returned = f.result, !.line = "done"]
    /\ UNCHANGED <<vars, script>>

NextSteps ==
    \/ CallFlatten
    \/ ItemIsArray
    \/ ItemPush
    \/ ReturnConcat
    \/ ReturnResult

SpecSteps == InitSteps /\ [][NextSteps]_allvars

\* the call, once made, keeps running: a single thread that nothing suspends
FairSteps == SpecSteps /\ WF_allvars(NextSteps)

(* ------------------------------------------------------------------ *)
(* The example run at the end of q3 and of q4: two rabbits are made,   *)
(* then r1's name, walksOnLand and jump count and the total are        *)
(* logged.  The two files give the rabbits the same names and jump     *)
(* counts in different order; a script is one such assignment.  Where  *)
(* the run stands is told by the entities made and the last call.      *)
(* ------------------------------------------------------------------ *)
RabbitArgs(n, w, j) == [name |-> n, walks |-> w, jumps |-> j]

\* q3: r1 = new Rabbit("Bittu", true, 3); r2 = new Rabbit("Bunny", true, 2)
Q3Script ==
    [name |-> "script",
     r1 |-> RabbitArgs(Str("Bittu"), Bool(TRUE), Num(3)),
     r2 |-> RabbitArgs(Str("Bunny"), Bool(TRUE), Num(2))]

\* q4: r1 = new Rabbit("Bunny", true, 3); r2 = new Rabbit("Bittu", true, 2)
Q4Script ==
    [name |-> "script",
     r1 |-> RabbitArgs(Str("Bunny"), Bool(TRUE), Num(3)),
     r2 |-> RabbitArgs(Str("Bittu"), Bool(TRUE), Num(2))]

ScriptRabbits ==
    {RabbitArgs(n, Bool(TRUE), j) : n \in {Str("Bittu"), Str("Bunny")},
                                    j \in {Num(3), Num(2)}}

Scripts == {[name |-> "script", r1 |-> a, r2 |-> b] : a, b \in ScriptRabbits}

InitScript ==
    /\ heap3 = <<>>
    /\ heap4 = <<>>
    /\ count3 = 0
    /\ count4 = 0
    /\ pc = "idle"
    /\ cur = NoCur
    /\ last = NoCall
    /\ script \in Scripts
    /\ fn = NoFn

\* const r1 = new Rabbit(...)
ScriptNewR1 ==
    /\ Len(heap3) = 0
    /\ NewRabbit(script.r1.name, script.r1.walks, script.r1.jumps)

\* const r2 = new Rabbit(...)
ScriptNewR2 ==
    /\ Len(heap3) = 1
    /\ NewRabbit(script.r2.name, script.r2.walks, script.r2.jumps)

\* console.log(r1.name) / console.log(r1.getName())
ScriptLogName ==
    /\ Len(heap3) = 2
    /\ last.op = "new"
    /\ GetName(1)

\* console.log(r1.walksOnLand())
ScriptLogWalks ==
    /\ last.op = "getName"
    /\ WalksOnLand(1)

\* console.log(r1.jumpsCount) / console.log(r1.getJumps())
ScriptLogJumps ==
    /\ last.op = "walksOnLand"
    /\ JumpsCount(1)

\* console.log(Animal.totalAnimal()) / console.log(Animal.totalAnimals())
ScriptLogTotal ==
    /\ last.op = "jumpsCount"
    /\ TotalAnimal

NextScript ==
    \/ ScriptNewR1
    \/ ScriptNewR2
    \/ Construct
    \/ ScriptLogName
    \/ ScriptLogWalks
    \/ ScriptLogJumps
    \/ ScriptLogTotal

SpecScript == InitScript /\ [][NextScript]_allvars

(* ------------------------------------------------------------------ *)
(* Properties                                                          *)
(* ------------------------------------------------------------------ *)
Constructed == Len(heap3)

\* C1: between calls, after N completed constructions in any mix and order of
\* Animal, Mammal and Rabbit, the total-count operation returns N in both
\* versions; so each construction raises the counter by exactly 1.
C1_CountEqualsConstructions ==
    pc = "idle" =>
        /\ Len(heap4) = Constructed
        /\ totalAnimal3 = Num(Constructed)
        /\ totalAnimals4 = Num(Constructed)

\* C1 witness: a Rabbit and then a Mammal were constructed, and the total-count
\* operation has just returned 2.
C1_Witness ==
    /\ pc = "idle"
    /\ Constructed = 2
    /\ heap3[1].cls = "Rabbit"
    /\ heap3[2].cls = "Mammal"
    /\ last.op = "totalAnimal"
    /\ last.r3 = Num(2)
    /\ last.r4 = Num(2)

ExplicitRabbit ==
    /\ last.op = "new"
    /\ last.kind = "Rabbit"
    /\ last.walks # Undefined
    /\ last.jumps # Undefined

\* C2: a Rabbit just constructed from an explicit (name, walks, jumps) reads
\* back exactly these three values, in both versions.
C2_ExplicitArgumentsStored ==
    ExplicitRabbit =>
        /\ getName3(heap3[last.id]) = last.name
        /\ walksOnLand3(heap3[last.id]) = last.walks
        /\ jumpsCount3(heap3[last.id]) = last.jumps
        /\ getName4(heap4[last.id]) = last.name
        /\ walksOnLand4(heap4[last.id]) = last.walks
        /\ getJumps4(heap4[last.id]) = last.jumps

\* C2 witness: new Rabbit("", false, 0) has just returned.
C2_Witness ==
    /\ ExplicitRabbit
    /\ last.name = Str("")
    /\ last.walks = Bool(FALSE)
    /\ last.jumps = Num(0)

\* C3: a Mammal or Rabbit just constructed without walks walks on land; a
\* Rabbit just constructed without jumps has jump count 2.
C3_DefaultsApplied ==
    last.op = "new" =>
        /\ (last.kind \in {"Mammal", "Rabbit"} /\ last.walks = Undefined) =>
              /\ walksOnLand3(heap3[last.id]) = Bool(TRUE)
              /\ walksOnLand4(heap4[last.id]) = Bool(TRUE)
        /\ (last.kind = "Rabbit" /\ last.jumps = Undefined) =>
              /\ jumpsCount3(heap3[last.id]) = Num(2)
              /\ getJumps4(heap4[last.id]) = Num(2)

\* C3 witness: new Rabbit("Bunny") has just returned, walks and jumps omitted.
C3_Witness ==
    /\ last.op = "new"
    /\ last.kind = "Rabbit"
    /\ last.name = Str("Bunny")
    /\ last.walks = Undefined
    /\ last.jumps = Undefined

\* C4: a call of one entity's name setter leaves the counter and the name of
\* every other entity as they were.
C4_SetNameFrame ==
    [][(pc = "idle" /\ last'.op = "setName") =>
          /\ count3' = count3
          /\ count4' = count4
          /\ \A j \in Ids \ {last'.id} :
                /\ getName3(heap3'[j]) = getName3(heap3[j])
                /\ getName4(heap4'[j]) = getName4(heap4[j])]_vars

\* C4 witness: of two entities, the second has just been renamed and the
\* first carries another name.
C4_Witness ==
    /\ last.op = "setName"
    /\ last.id = 2
    /\ getName3(heap3[2]) = Str("Bunny")
    /\ getName3(heap3[1]) = Str("")
    /\ getName4(heap4[1]) = Str("")

\* C5: no step changes the jump count an existing rabbit reads, an assignment
\* to its jump-count property included, and a read returns the stored value.
C5_JumpsFixed ==
    [][/\ \A i \in Ids :
             /\ jumpsCount3(heap3'[i]) = jumpsCount3(heap3[i])
             /\ getJumps4(heap4'[i]) = getJumps4(heap4[i])
       /\ (pc = "idle" /\ last'.op = "jumpsCount") =>
             /\ last'.r3 = heap3[last'.id].jumps
             /\ last'.r4 = heap4[last'.id].jumps]_vars

\* C5 witness: calling code has just assigned 7 to the jumpsCount of a rabbit
\* whose jump count is 0.
C5_Witness ==
    /\ last.op = "assign:jumpsCount"
    /\ last.arg = Num(7)
    /\ IsRabbit(heap3[last.id])
    /\ jumpsCount3(heap3[last.id]) = Num(0)
    /\ getJumps4(heap4[last.id]) = Num(0)

HasSlot(o, f) == o[f] # NoSlot

\* C6: a construction enters the initializers from the constructed class up to
\* Animal, each once, and stores name, counter, walks, jumps in this order:
\* when walks is stored the name is stored and the counter raised and jumps
\* is not stored; when jumps is stored walks is.
C6_InitializerOrder ==
    /\ (last.op = "new" /\ last.kind = "Rabbit") =>
          last.log = <<"Rabbit", "Mammal", "Animal", "name", "count", "walks", "jumps">>
    /\ (last.op = "new" /\ last.kind = "Mammal") =>
          last.log = <<"Mammal", "Animal", "name", "count", "walks">>
    /\ (last.op = "new" /\ last.kind = "Animal") =>
          last.log = <<"Animal", "name", "count">>
    /\ pc = "Animal:name" =>
          /\ ~HasSlot(cur.this4, "name") /\ ~HasSlot(cur.this4, "walks")
          /\ ~HasSlot(cur.this4, "jumps")
          /\ count3 = Constructed
    /\ pc = "Mammal:walks" =>
          /\ HasSlot(cur.this3, "name") /\ HasSlot(cur.this4, "name")
          /\ count3 = Constructed + 1 /\ count4 = Constructed + 1
          /\ ~HasSlot(cur.this3, "walks") /\ ~HasSlot(cur.this4, "walks")
          /\ ~HasSlot(cur.this3, "jumps") /\ ~HasSlot(cur.this4, "jumps")
    /\ pc = "Rabbit:jumps" =>
          /\ HasSlot(cur.this3, "walks") /\ HasSlot(cur.this4, "walks")
          /\ ~HasSlot(cur.this3, "jumps") /\ ~HasSlot(cur.this4, "jumps")

\* C6 witness: a Rabbit construction stands before the store of jumps.
C6_Witness ==
    /\ pc = "Rabbit:jumps"
    /\ cur.kind = "Rabbit"
    /\ cur.log = <<"Rabbit", "Mammal", "Animal", "name", "count", "walks">>

CounterChanges == count3' # count3 \/ count4' # count4

\* C8 as stated: only the constructing operation changes the counter, whatever
\* calling code does, direct access to the counter included.
C8_OnlyConstructionChangesCounter ==
    [][CounterChanges => pc = "Animal:count"]_vars

\* C8 amended: the counter changes only in a construction and in a direct
\* assignment to Animal.count; no accessor and no assignment to another
\* property changes it.
C8_OnlyConstructionOrCountAssignment ==
    [][CounterChanges => (pc = "Animal:count" \/ last'.op = "assign:count")]_vars

\* C8 witness: after two constructions calling code has set Animal.count to 0.
C8_Witness ==
    /\ last.op = "assign:count"
    /\ Constructed = 2
    /\ count3 = 0
    /\ count4 = 0

\* C9: the total-count operation returns the counter and changes neither the
\* counter nor any entity.
C9_TotalCountPureRead ==
    [][(pc = "idle" /\ last'.op = "totalAnimal") =>
          /\ last'.r3 = Num(count3)
          /\ last'.r4 = Num(count4)
          /\ UNCHANGED <<heap3, heap4, count3, count4>>]_vars

\* C9 witness: with two entities the total-count operation has returned 2.
C9_Witness ==
    /\ last.op = "totalAnimal"
    /\ Constructed = 2
    /\ last.r3 = Num(2)
    /\ last.r4 = Num(2)
    /\ heap3[2].cls = "Rabbit"

\* C10: the name an existing entity reads changes only in a call of that
\* entity's own name setter; constructions, walks setters, reads and
\* assignments to other properties leave it.
C10_NameOnlyBySetter ==
    [][\A i \in Ids :
          (getName3(heap3'[i]) # getName3(heap3[i]) \/ getName4(heap4'[i]) # getName4(heap4[i]))
             => (last'.op = "setName" /\ last'.id = i)]_vars

\* C10 witness: calling code has just assigned 7 to the _name of an entity
\* named "Bunny".
C10_Witness ==
    /\ last.op = "assign:_name"
    /\ last.arg = Num(7)
    /\ getName3(heap3[last.id]) = Str("Bunny")
    /\ getName4(heap4[last.id]) = Str("Bunny")

\* C11: the name an entity reads is the value of the last call of its name
\* setter, the empty string included, and the name given at construction
\* before any such call: a setName(v) step makes the entity read v, a
\* completed construction makes the new entity read its name argument, and
\* no other step changes what an entity reads.
C11_NameIsLastSet ==
    [][/\ \A i \in Ids :
             IF pc = "idle" /\ last'.op = "setName" /\ last'.id = i
               THEN getName3(heap3'[i]) = last'.arg /\ getName4(heap4'[i]) = last'.arg
               ELSE getName3(heap3'[i]) = getName3(heap3[i])
                      /\ getName4(heap4'[i]) = getName4(heap4[i])
       /\ (pc # "idle" /\ pc' = "idle") =>
             /\ getName3(heap3'[last'.id]) = last'.name
             /\ getName4(heap4'[last'.id]) = last'.name
       /\ (pc = "idle" /\ last'.op = "getName") =>
             /\ last'.r3 = heap3[last'.id].name
             /\ last'.r4 = heap4[last'.id].name]_vars

\* C11 witness: an entity has just been renamed to the empty string and reads it.
C11_Witness ==
    /\ last.op = "setName"
    /\ last.arg = Str("")
    /\ getName3(heap3[last.id]) = Str("")
    /\ getName4(heap4[last.id]) = Str("")
    /\ Constructed = 2

\* C12: a setWalks(v) step makes the entity's walksOnLand() read v and leaves
\* its name, its jump count and the counter; no other step changes what
\* walksOnLand() reads on an existing entity.
C12_WalksIsLastSet ==
    [][\A i \in Ids :
          IF pc = "idle" /\ last'.op = "setWalks" /\ last'.id = i
            THEN /\ walksOnLand3(heap3'[i]) = last'.arg
                 /\ walksOnLand4(heap4'[i]) = last'.arg
                 /\ getName3(heap3'[i]) = getName3(heap3[i])
                 /\ getName4(heap4'[i]) = getName4(heap4[i])
                 /\ jumpsCount3(heap3'[i]) = jumpsCount3(heap3[i])
                 /\ getJumps4(heap4'[i]) = getJumps4(heap4[i])
                 /\ count3' = count3
                 /\ count4' = count4
            ELSE /\ walksOnLand3(heap3'[i]) = walksOnLand3(heap3[i])
                 /\ walksOnLand4(heap4'[i]) = walksOnLand4(heap4[i])]_vars

\* C12 witness: a rabbit with jump count 3 has just been set not to walk.
C12_Witness ==
    /\ last.op = "setWalks"
    /\ last.arg = Bool(FALSE)
    /\ IsRabbit(heap3[last.id])
    /\ walksOnLand3(heap3[last.id]) = Bool(FALSE)
    /\ walksOnLand4(heap4[last.id]) = Bool(FALSE)
    /\ jumpsCount3(heap3[last.id]) = Num(3)

\* C13: no construction fails: between calls every construction can be
\* started with every argument (while the model has room), a running
\* construction can always take its next step, and the step that ends it
\* hands over one new entity of the class asked for and has raised the
\* counter by one.
C13_ConstructionSucceeds ==
    /\ [](pc # "idle" => ENABLED Construct)
    /\ []((pc = "idle" /\ Constructed < MaxEntities) =>
             /\ \A n \in NameArgs : ENABLED NewAnimal(n)
             /\ \A n \in NameArgs, w \in WalkArgs : ENABLED NewMammal(n, w)
             /\ \A n \in NameArgs, w \in WalkArgs, j \in JumpArgs : ENABLED NewRabbit(n, w, j))
    /\ [][(pc # "idle" /\ pc' = "idle") =>
             /\ Len(heap3') = Len(heap3) + 1
             /\ Len(heap4') = Len(heap4) + 1
             /\ heap3'[Len(heap3')].cls = cur.kind
             /\ heap4'[Len(heap4')].cls = cur.kind
             /\ count3' = Len(heap3')
             /\ count4' = Len(heap4')]_vars

\* C13 witness: new Rabbit("", true, -1) has returned its entity.
C13_Witness ==
    /\ last.op = "new"
    /\ last.kind = "Rabbit"
    /\ last.name = Str("")
    /\ last.jumps = Num(0 - 1)
    /\ heap3[last.id].cls = "Rabbit"
    /\ count3 = last.id

\* the private fields an object of class cls has
Layers(cls) ==
    CASE cls = "Animal" -> {"name"}
      [] cls = "Mammal" -> {"name", "walks"}
      [] cls = "Rabbit" -> {"name", "walks", "jumps"}

Shape(o) == {f \in {"name", "walks", "jumps"} : HasSlot(o, f)}

\* C14: every entity handed to calling code has exactly the fields of its
\* class, no step changes the class or the fields of an existing entity, and
\* while a construction runs no accessor can be called.
C14_ShapeFixed ==
    /\ [](\A i \in Ids :
             /\ heap3[i].cls \in Classes
             /\ Shape(heap3[i]) = Layers(heap3[i].cls)
             /\ Shape(heap4[i]) = Layers(heap4[i].cls))
    /\ [](pc # "idle" => ~ENABLED (Read \/ Write(RawNameArgs) \/ Raw))
    /\ [][\A i \in Ids :
             /\ heap3'[i].cls = heap3[i].cls
             /\ heap4'[i].cls = heap4[i].cls
             /\ Shape(heap3'[i]) = Shape(heap3[i])
             /\ Shape(heap4'[i]) = Shape(heap4[i])]_vars

\* C14 witness: calling code has just assigned to _jumps of a Mammal, which
\* still has no jumps field; a Rabbit stands beside it.
C14_Witness ==
    /\ last.op = "assign:_jumps"
    /\ Constructed = 2
    /\ heap3[last.id].cls = "Mammal"
    /\ ~HasSlot(heap3[last.id], "jumps")
    /\ ~HasSlot(heap4[last.id], "jumps")
    /\ \E i \in Ids : IsRabbit(heap3[i])

Range(q) == {q[k] : k \in 1..Len(q)}
Occurrences(q, x) == Cardinality({k \in 1..Len(q) : q[k] = x})
FirstIndex(q, x) == CHOOSE k \in 1..Len(q) : q[k] = x /\ \A m \in 1..(k - 1) : q[m] # x

\* two words have the same sorted character sequence: they are as long as
\* each other and every character occurs as often in one as in the other
SameSortedChars(u, v) ==
    /\ Len(u) = Len(v)
    /\ \A c \in Chars : Occurrences(u, c) = Occurrences(v, c)

AnagramsDone == fn.name = "filterAnagrams" /\ fn.done

\* C15: two words of the input are in one group of filterAnagrams' result
\* exactly when their sorted character sequences are equal, and the groups
\* stand in the order in which their first words first occur in the input.
C15_GroupsBySortedKey ==
    AnagramsDone =>
        /\ \A i, j \in 1..Len(fn.arr) :
              (\E g \in 1..Len(fn.result) :
                    fn.arr[i] \in Range(fn.result[g]) /\ fn.arr[j] \in Range(fn.result[g]))
                 <=> SameSortedChars(fn.arr[i], fn.arr[j])
        /\ \A g, h \in 1..Len(fn.result) :
              g < h => FirstIndex(fn.arr, fn.result[g][1]) < FirstIndex(fn.arr, fn.result[h][1])

\* C15 witness: ["ab", "b", "ba"] has been grouped into [["ab", "ba"], ["b"]].
C15_Witness ==
    /\ AnagramsDone
    /\ fn.arr = <<<<97, 98>>, <<98>>, <<98, 97>>>>
    /\ fn.result = <<<<<<97, 98>>, <<98, 97>>>>, <<<<98>>>>>>

Q1Done == fn.name = "q1" /\ fn.line = "done"

\* res holds each value of arr once, in the order of first occurrence in arr,
\* and nothing else
IsDeduplicationOf(res, arr) ==
    /\ \A x \in Range(arr) : Occurrences(res, x) = 1
    /\ Range(res) \subseteq Range(arr)
    /\ \A g, h \in 1..Len(res) : g < h => FirstIndex(arr, res[g]) < FirstIndex(arr, res[h])

\* C16: each of the two deduplications returns every distinct value of the
\* input once, in the order of first occurrence, and no other value.
C16_Deduplicates ==
    Q1Done =>
        /\ IsDeduplicationOf(fn.unique, fn.arr)
        /\ IsDeduplicationOf(fn.uniqueArr, fn.arr)

\* C20: the two deduplications return the same sequence.
C20_VariantsAgree ==
    Q1Done => fn.unique = fn.uniqueArr

RECURSIVE LeafPaths(_)
\* the index paths from an element down to the numbers in it
LeafPaths(node) ==
    IF ~node.isArray THEN {<<>>}
    ELSE UNION {{<<k>> \o p : p \in LeafPaths(node.items[k])} : k \in 1..Len(node.items)}

RECURSIVE At(_, _)
At(node, path) == IF path = <<>> THEN node ELSE At(node.items[Head(path)], Tail(path))

RECURSIVE Before(_, _)
\* path p is left of path q: depth-first, left-to-right order
Before(p, q) ==
    /\ p # <<>>
    /\ q # <<>>
    /\ \/ Head(p) < Head(q)
       \/ Head(p) = Head(q) /\ Before(Tail(p), Tail(q))

\* res is the numbers of array, none of them an array, in depth-first
\* left-to-right order
IsFlatteningOf(res, array) ==
    LET paths == LeafPaths(array)
    IN /\ Len(res) = Cardinality(paths)
       /\ \A p \in paths :
             LET pos == 1 + Cardinality({q \in paths : Before(q, p)})
             IN ~res[pos].isArray /\ res[pos] = At(array, p)

Q7Done == fn.name = "q7" /\ fn.line = "done"

\* C17: each of the two flattenings of a nested array, whatever its depth, is
\* a sequence without arrays that holds exactly the numbers of the input in
\* depth-first, left-to-right order.
C17_FlattensDepthFirst ==
    Q7Done =>
        /\ IsFlatteningOf(fn.flat, fn.array)
        /\ IsFlatteningOf(fn.withoutFlat, fn.array)

\* C17 witness: [1, [2, [3, 4], 5], [6, 7], 8] has been flattened to 1..8.
C17_Witness ==
    /\ Q7Done
    /\ fn.array = Q7Literal
    /\ fn.flat = [k \in 1..8 |-> Leaf(k)]
    /\ fn.withoutFlat = [k \in 1..8 |-> Leaf(k)]

Reads == {"getName", "walksOnLand", "jumpsCount", "totalAnimal"}

\* C18: run side by side on the same calling code (constructions with
\* arguments given or omitted, name and walks set, attributes and the total
\* read), the class version and the prototype version return the same value
\* from every read.
C18_ReadsAgree == last.op \in Reads => last.r3 = last.r4

\* C18 witness: after constructions and writes, a read of walksOnLand has
\* returned false in both versions and a second entity exists.
C18_Witness ==
    /\ last.op = "walksOnLand"
    /\ last.r3 = Bool(FALSE)
    /\ last.r4 = Bool(FALSE)
    /\ Len(heap3) = 2

\* C19: in the run of the class version's script (r1 = Rabbit("Bittu", true,
\* 3), then r2 = Rabbit("Bunny", true, 2)), r1.name logs "Bunny",
\* r1.walksOnLand() logs true, r1.jumpsCount logs 3 and the total logs 2.
C19_ScriptLogsAsCommented ==
    script = Q3Script =>
        /\ last.op = "getName" => last.r3 = Str("Bunny")
        /\ last.op = "walksOnLand" => last.r3 = Bool(TRUE)
        /\ last.op = "jumpsCount" => last.r3 = Num(3)
        /\ last.op = "totalAnimal" => last.r3 = Num(2)

\* C21: flattenUsingFlat and flattenWithoutFlat return the same sequence for
\* every nested array, empty arrays and empty nested arrays included.
C21_FlattenVariantsAgree == Q7Done => fn.flat = fn.withoutFlat

\* C21 witness: [1, [[[]]], 2], with an empty array three levels down, has
\* been flattened to 1, 2 by both.
C21_Witness ==
    /\ Q7Done
    /\ fn.array = Arr(<<Leaf(1), Arr(<<Arr(<<Arr(<<>>)>>)>>), Leaf(2)>>)
    /\ fn.flat = <<Leaf(1), Leaf(2)>>
    /\ fn.withoutFlat = <<Leaf(1), Leaf(2)>>

RECURSIVE ArrayPaths(_)
\* the index paths from an array down to the arrays in it, itself included
ArrayPaths(node) ==
    IF ~node.isArray THEN {}
    ELSE {<<>>} \cup
         UNION {{<<k>> \o p : p \in ArrayPaths(node.items[k])} : k \in 1..Len(node.items)}

StepsDone == fn.name = "flattenWithoutFlat" /\ fn.line = "done"

\* the input array and its nested arrays are what they were at the call
InputUnmodified ==
    fn.name = "flattenWithoutFlat" => Contents(fn.store, fn.root) = fn.array

\* what holds when flattenWithoutFlat has returned
StepsResult ==
    StepsDone =>
        /\ Len(fn.calls) = Cardinality(ArrayPaths(fn.array)) - 1
        /\ \A a \in 1..(fn.root - 1) : Occurrences(fn.calls, a) = 1
        /\ Len(fn.store[fn.returned]) = Cardinality(LeafPaths(fn.array))

\* C22: flattenWithoutFlat returns on every nested array; it has then made
\* one recursive call per nested array and its result is as long as the
\* input has numbers; the input array and its nested arrays are never
\* modified.
C22_TerminatesCallsPerArray == <>StepsDone /\ [](StepsResult /\ InputUnmodified)

\* C22 witness: flattenWithoutFlat has returned 1..8 for
\* [1, [2, [3, 4], 5], [6, 7], 8] after three recursive calls.
C22_Witness ==
    /\ StepsDone
    /\ fn.array = Q7Literal
    /\ Len(fn.calls) = 3
    /\ fn.store[fn.returned] = [k \in 1..8 |-> Val(k)]

RECURSIVE Chosen(_, _, _)
\* the members of q, in order, at the positions that f sends to g
Chosen(q, f, g) ==
    IF q = <<>> THEN <<>>
    ELSE LET n == Len(q)
             front == Chosen(SubSeq(q, 1, n - 1), f, g)
         IN IF f[n] = g THEN Append(front, q[n]) ELSE front

\* groups partition arr: some assignment of each position of arr to one
\* group makes every group the words at its positions, in input order
IsPartitionOf(groups, arr) ==
    \E f \in [1..Len(arr) -> 1..Len(groups)] :
        \A g \in 1..Len(groups) : groups[g] = Chosen(arr, f, g)

RECURSIVE SumLen(_)
SumLen(groups) == IF groups = <<>> THEN 0 ELSE Len(Head(groups)) + SumLen(Tail(groups))

\* C23: the groups filterAnagrams returns partition its input: every word
\* occurrence, duplicates included, is in exactly one group, the group sizes
\* sum to the input's length, no group is empty, and the words of a group are
\* in their input order.
C23_GroupsPartitionInput ==
    AnagramsDone =>
        /\ IsPartitionOf(fn.result, fn.arr)
        /\ SumLen(fn.result) = Len(fn.arr)
        /\ \A g \in 1..Len(fn.result) : fn.result[g] # <<>>

\* C23 witness: "ab", "bb", "ab" has been grouped into ("ab", "ab") and
\* ("bb"): a duplicate word, twice in its group.
C23_Witness ==
    /\ AnagramsDone
    /\ fn.arr = <<<<97, 98>>, <<98, 98>>, <<97, 98>>>>
    /\ fn.result = <<<<<<97, 98>>, <<97, 98>>>>, <<<<98, 98>>>>>>

====
